---- MODULE Spec2Model ----
(***************************************************************************)
(* Model of the workspace backend of miku (src-tauri/src/workspace.rs):    *)
(* the recursive directory-tree builder, the create / delete / rename      *)
(* file operations, and the persisted WorkspaceConfig; with save_file and  *)
(* the recent-files list of commands.rs and is_markdown_file of            *)
(* file_ops.rs.                                                            *)
(*                                                                         *)
(* A file name is a sequence of one-character strings, a path is the       *)
(* sequence of its components below the filesystem root "/" (<<>>).        *)
(* Option<T> is a sequence of length 0 (None) or 1 (Some(x)).              *)
(***************************************************************************)
EXTENDS Integers, Sequences, FiniteSets, TLC

VARIABLES
    fs,           \* the disk: existing path -> entry (the root "/" always exists)
    config_file,  \* workspace_config.json: None, or Some(WorkspaceConfig)
    last,         \* the last completed command: name, arguments, result, state before
    hist,         \* the paths of the completed set_workspace (add_recent_file) calls, oldest first
    recent_files, \* recent_files.json: None, or Some(list of paths)
    calls         \* the commands in flight at the same time, by caller

vars == <<fs, config_file, last, hist, recent_files, calls>>

-----------------------------------------------------------------------------
(* Bounds of the model *)

MaxEntries == 4      \* entries on disk below "/" (file-tree specification)
MaxDepth == 3        \* components of a path
NumWorkspaces == 11  \* distinct workspace directories (config specification)
MaxReselect == 1     \* set_workspace calls with an already used path
NumVolatile == 1     \* workspace directories that are deleted and created again
MaxExcludedDepth == 4  \* components of a path (exclusion specification)
NumRacePaths == 3      \* workspace directories (race specification)
NumRecentFiles == 11   \* distinct file paths (recent-files specification)
MaxPreset == 2         \* set_workspace calls completed before the race
MaxSetCalls == 2       \* set_workspace calls (frame specification)

-----------------------------------------------------------------------------
(* Option and Result *)

None == <<>>
Some(x) == <<x>>
Unit == <<>>

Ok(v) == [ok |-> TRUE, val |-> v, kind |-> "", msg |-> ""]
Err(k, m) == [ok |-> FALSE, val |-> <<>>, kind |-> k, msg |-> m]
PathErr(m) == Err("Path", m)
IoErr(m) == Err("Io", m)

-----------------------------------------------------------------------------
(* Strings: bytes, to_lowercase, Ord *)

CharCode ==
    ("." :> 46) @@ ("_" :> 95) @@
    ("A" :> 65) @@ ("B" :> 66) @@ ("D" :> 68) @@ ("M" :> 77) @@
    ("a" :> 97) @@ ("b" :> 98) @@ ("c" :> 99) @@ ("d" :> 100) @@ ("e" :> 101) @@
    ("f" :> 102) @@ ("g" :> 103) @@ ("h" :> 104) @@ ("i" :> 105) @@ ("j" :> 106) @@
    ("k" :> 107) @@ ("l" :> 108) @@ ("m" :> 109) @@ ("n" :> 110) @@ ("o" :> 111) @@
    ("p" :> 112) @@ ("r" :> 114) @@ ("s" :> 115) @@ ("t" :> 116) @@ ("u" :> 117) @@
    ("w" :> 119) @@ ("x" :> 120)

\* char::to_lowercase on the ASCII range
lower_char(c) ==
    IF CharCode[c] >= 65 /\ CharCode[c] <= 90
    THEN CHOOSE d \in DOMAIN CharCode : CharCode[d] = CharCode[c] + 32
    ELSE c

to_lowercase(s) == [i \in 1..Len(s) |-> lower_char(s[i])]

\* <str as Ord>::cmp: byte-wise lexicographic
RECURSIVE str_cmp(_, _)
str_cmp(a, b) ==
    IF a = <<>> THEN (IF b = <<>> THEN "Equal" ELSE "Less")
    ELSE IF b = <<>> THEN "Greater"
    ELSE IF CharCode[Head(a)] < CharCode[Head(b)] THEN "Less"
    ELSE IF CharCode[Head(a)] > CharCode[Head(b)] THEN "Greater"
    ELSE str_cmp(Tail(a), Tail(b))

starts_with(s, c) == Len(s) >= 1 /\ s[1] = c

\* Path::extension of an entry: the part of the file name after its last '.',
\* None when there is no '.' or when the only '.' is the first byte
extension(file_name) ==
    LET dots == {i \in 1..Len(file_name) : file_name[i] = "."} IN
    IF dots = {} THEN None
    ELSE LET d == CHOOSE i \in dots : \A j \in dots : j <= i IN
         IF d = 1 THEN None
         ELSE Some(SubSeq(file_name, d + 1, Len(file_name)))

-----------------------------------------------------------------------------
(* File names of the model *)

a_md == <<"a", ".", "m", "d">>
A_md == <<"A", ".", "m", "d">>
B_md == <<"B", ".", "m", "d">>
n_txt == <<"n", ".", "t", "x", "t">>
c_dir == <<"c">>
D_dir == <<"D">>

node_modules == <<"n", "o", "d", "e", "_", "m", "o", "d", "u", "l", "e", "s">>
target == <<"t", "a", "r", "g", "e", "t">>
md == <<"m", "d">>
markdown == <<"m", "a", "r", "k", "d", "o", "w", "n">>
mdown == <<"m", "d", "o", "w", "n">>

-----------------------------------------------------------------------------
(* The filesystem *)

Root == <<>>
Parent(p) == SubSeq(p, 1, Len(p) - 1)
FileName(p) == p[Len(p)]
IsPrefix(p, q) == Len(p) <= Len(q) /\ SubSeq(q, 1, Len(p)) = p

DirEntry == [kind |-> "dir", readable |-> TRUE, content |-> ""]
FileEntry(c) == [kind |-> "file", readable |-> TRUE, content |-> c]

\* Path::exists
Exists(f, p) == p = Root \/ p \in DOMAIN f
\* Path::is_dir, Metadata::is_dir
IsDir(f, p) == p = Root \/ (p \in DOMAIN f /\ f[p].kind = "dir")
Readable(f, p) == p = Root \/ f[p].readable

ChildNames(f, p) == {FileName(q) : q \in {r \in DOMAIN f : Len(r) = Len(p) + 1 /\ IsPrefix(p, r)}}
Dirs(f) == {Root} \cup {p \in DOMAIN f : f[p].kind = "dir"}

RECURSIVE Perms(_)
Perms(S) ==
    IF S = {} THEN {<<>>}
    ELSE UNION {{<<x>> \o s : s \in Perms(S \ {x})} : x \in S}

\* The orders in which read_dir may yield the entries of every directory: the
\* order is the filesystem's and is not specified
RECURSIVE EnumerationsOver(_, _)
EnumerationsOver(f, ds) ==
    IF ds = {} THEN {[x \in {} |-> <<>>]}
    ELSE LET d == CHOOSE x \in ds : TRUE IN
         UNION {{(d :> s) @@ e : e \in EnumerationsOver(f, ds \ {d})} : s \in Perms(ChildNames(f, d))}

Enumerations(f) == EnumerationsOver(f, Dirs(f))

\* tokio::fs::read_dir followed by next_entry until None
read_dir(f, path, enum) ==
    IF ~Exists(f, path) THEN IoErr("NotFound")
    ELSE IF ~IsDir(f, path) THEN IoErr("NotADirectory")
    ELSE IF ~Readable(f, path) THEN IoErr("PermissionDenied")
    ELSE Ok(enum[path])

\* tokio::fs::write: creates the file or truncates it
fs_write(f, p, content) ==
    IF ~Exists(f, Parent(p)) THEN [fs |-> f, res |-> IoErr("NotFound")]
    ELSE IF ~IsDir(f, Parent(p)) THEN [fs |-> f, res |-> IoErr("NotADirectory")]
    ELSE IF IsDir(f, p) THEN [fs |-> f, res |-> IoErr("IsADirectory")]
    ELSE [fs |-> [q \in DOMAIN f \cup {p} |-> IF q = p THEN FileEntry(content) ELSE f[q]],
          res |-> Ok(Unit)]

\* tokio::fs::create_dir: not recursive, the parent must exist
fs_create_dir(f, p) ==
    IF ~Exists(f, Parent(p)) THEN [fs |-> f, res |-> IoErr("NotFound")]
    ELSE IF ~IsDir(f, Parent(p)) THEN [fs |-> f, res |-> IoErr("NotADirectory")]
    ELSE IF Exists(f, p) THEN [fs |-> f, res |-> IoErr("AlreadyExists")]
    ELSE [fs |-> [q \in DOMAIN f \cup {p} |-> IF q = p THEN DirEntry ELSE f[q]],
          res |-> Ok(Unit)]

-----------------------------------------------------------------------------
(* list_workspace_files / list_directory *)

\* (mutant) hidden entries alone are skipped
is_excluded_hidden_only(file_name) == starts_with(file_name, ".")

is_excluded(file_name) ==
    starts_with(file_name, ".") \/ file_name = node_modules \/ file_name = target

\* (mutant) the extension compared with the dotted suffixes
is_markdown_ext_dotted(ext) ==
    /\ ext # None
    /\ LET ext_str == to_lowercase(ext[1]) IN
       ext_str = <<".">> \o md \/ ext_str = <<".">> \o markdown \/ ext_str = <<".">> \o mdown

\* (mutant) the extension compared as it is, without to_lowercase
is_markdown_ext_cased(ext) ==
    /\ ext # None
    /\ (ext[1] = md \/ ext[1] = markdown \/ ext[1] = mdown)

is_markdown_ext(ext) ==
    /\ ext # None
    /\ LET ext_str == to_lowercase(ext[1]) IN
       ext_str = md \/ ext_str = markdown \/ ext_str = mdown

\* (mutant) the names compared as they are, without to_lowercase
compare_files_case_sensitive(a, b) ==
    IF a.is_directory /\ ~b.is_directory THEN "Less"
    ELSE IF ~a.is_directory /\ b.is_directory THEN "Greater"
    ELSE str_cmp(a.name, b.name)

\* the closure given to sort_by
compare_files(a, b) ==
    IF a.is_directory /\ ~b.is_directory THEN "Less"
    ELSE IF ~a.is_directory /\ b.is_directory THEN "Greater"
    ELSE str_cmp(to_lowercase(a.name), to_lowercase(b.name))

\* slice::sort_by is a stable sort: an element stays behind the earlier
\* elements it does not compare Less than
RECURSIVE insert_sorted(_, _)
insert_sorted(s, x) ==
    IF s = <<>> THEN <<x>>
    ELSE IF compare_files(x, s[Len(s)]) = "Less"
         THEN Append(insert_sorted(SubSeq(s, 1, Len(s) - 1), x), s[Len(s)])
         ELSE Append(s, x)

RECURSIVE sort_by(_)
sort_by(s) ==
    IF s = <<>> THEN <<>>
    ELSE insert_sorted(sort_by(SubSeq(s, 1, Len(s) - 1)), s[Len(s)])

RECURSIVE Concat(_)
Concat(ss) == IF ss = <<>> THEN <<>> ELSE Head(ss) \o Concat(Tail(ss))

RECURSIVE list_directory_propagating(_, _, _, _)
\* (mutant) the failure of a recursive call is returned, as with `?`
list_directory_propagating(f, path, is_root, enum) ==
    LET entries == read_dir(f, path, enum) IN
    IF ~entries.ok THEN entries
    ELSE
      LET visit(file_name) ==
            LET entry_path == Append(path, file_name) IN
            IF is_excluded(file_name) THEN Ok(<<>>)
            ELSE IF IsDir(f, entry_path) THEN
              LET r == list_directory_propagating(f, entry_path, FALSE, enum) IN
              IF ~r.ok THEN r
              ELSE IF r.val # <<>> \/ is_root
                   THEN Ok(<< [name |-> file_name, path |-> entry_path,
                               is_directory |-> TRUE, children |-> Some(r.val)] >>)
                   ELSE Ok(<<>>)
            ELSE IF is_markdown_ext(extension(file_name))
                 THEN Ok(<< [name |-> file_name, path |-> entry_path,
                             is_directory |-> FALSE, children |-> None] >>)
                 ELSE Ok(<<>>)
          visited == [i \in 1..Len(entries.val) |-> visit(entries.val[i])]
          failed == {i \in 1..Len(visited) : ~visited[i].ok}
      IN IF failed # {}
         THEN visited[CHOOSE i \in failed : \A j \in failed : i <= j]
         ELSE Ok(sort_by(Concat([i \in 1..Len(visited) |-> visited[i].val])))

RECURSIVE list_directory(_, _, _, _)
list_directory(f, path, is_root, enum) ==
    LET entries == read_dir(f, path, enum) IN
    IF ~entries.ok THEN entries
    ELSE
      LET \* one turn of the while loop: what it pushes to files
          visit(file_name) ==
            LET entry_path == Append(path, file_name) IN
            IF is_excluded(file_name) THEN <<>>
            ELSE IF IsDir(f, entry_path) THEN
              LET r == list_directory(f, entry_path, FALSE, enum)
                  children == IF r.ok THEN Some(r.val) ELSE None
                  has_content == IF children = None THEN FALSE ELSE children[1] # <<>>
              IN IF has_content \/ is_root
                 THEN << [name |-> file_name, path |-> entry_path,
                          is_directory |-> TRUE, children |-> children] >>
                 ELSE <<>>
            ELSE IF is_markdown_ext(extension(file_name))
                 THEN << [name |-> file_name, path |-> entry_path,
                          is_directory |-> FALSE, children |-> None] >>
                 ELSE <<>>
          files == Concat([i \in 1..Len(entries.val) |-> visit(entries.val[i])])
      IN Ok(sort_by(files))

list_workspace_files(f, workspace_path, enum) ==
    IF ~Exists(f, workspace_path) THEN PathErr("Workspace path does not exist")
    ELSE list_directory(f, workspace_path, TRUE, enum)

-----------------------------------------------------------------------------
(* create_file, create_folder, delete_file, rename_file *)

\* (mutant) create_file without the check that the path is free
create_file_overwriting(f, base_path, name) ==
    LET file_path == Append(base_path, name)
        w == fs_write(f, file_path, "")
    IN IF w.res.ok THEN [fs |-> w.fs, res |-> Ok(file_path)] ELSE w

create_file(f, base_path, name) ==
    LET file_path == Append(base_path, name) IN
    IF Exists(f, file_path) THEN [fs |-> f, res |-> PathErr("File already exists")]
    ELSE LET w == fs_write(f, file_path, "") IN
         IF w.res.ok THEN [fs |-> w.fs, res |-> Ok(file_path)] ELSE w

create_folder(f, base_path, name) ==
    LET folder_path == Append(base_path, name) IN
    IF Exists(f, folder_path) THEN [fs |-> f, res |-> PathErr("Folder already exists")]
    ELSE LET w == fs_create_dir(f, folder_path) IN
         IF w.res.ok THEN [fs |-> w.fs, res |-> Ok(folder_path)] ELSE w

\* tokio::fs::remove_dir_all
fs_remove_dir_all(f, p) == [q \in {r \in DOMAIN f : ~IsPrefix(p, r)} |-> f[q]]
\* tokio::fs::remove_file
fs_remove_file(f, p) == [q \in DOMAIN f \ {p} |-> f[q]]

\* (mutant) remove_dir in place of remove_dir_all: fails on a directory with entries
delete_file_remove_dir(f, path) ==
    IF ~Exists(f, path) THEN [fs |-> f, res |-> PathErr("Path does not exist")]
    ELSE IF IsDir(f, path) THEN
        IF ChildNames(f, path) # {} THEN [fs |-> f, res |-> IoErr("DirectoryNotEmpty")]
        ELSE [fs |-> fs_remove_file(f, path), res |-> Ok(Unit)]
    ELSE [fs |-> fs_remove_file(f, path), res |-> Ok(Unit)]

delete_file(f, path) ==
    IF ~Exists(f, path) THEN [fs |-> f, res |-> PathErr("Path does not exist")]
    ELSE IF IsDir(f, path) THEN [fs |-> fs_remove_dir_all(f, path), res |-> Ok(Unit)]
    ELSE [fs |-> fs_remove_file(f, path), res |-> Ok(Unit)]

\* (mutant) the entry moves and what was below it is gone
fs_rename_shallow(f, old, new) ==
    [q \in {r \in DOMAIN f : ~IsPrefix(old, r)} \cup {new} |->
        IF q = new THEN f[old] ELSE f[q]]

\* tokio::fs::rename onto a path that does not exist: the entry and everything
\* below it moves
fs_rename(f, old, new) ==
    LET moved(q) == IF IsPrefix(old, q) THEN new \o SubSeq(q, Len(old) + 1, Len(q)) ELSE q
        back(q) == IF IsPrefix(new, q) THEN old \o SubSeq(q, Len(new) + 1, Len(q)) ELSE q
    IN [q \in {moved(r) : r \in DOMAIN f} |-> f[back(q)]]

\* (mutant) without the check of new_path: rename replaces what is there
rename_file_unchecked(f, old_path, new_name) ==
    IF ~Exists(f, old_path) THEN [fs |-> f, res |-> PathErr("Path does not exist")]
    ELSE IF old_path = Root
         THEN [fs |-> f, res |-> PathErr("Cannot determine parent directory")]
    ELSE LET new_path == Append(Parent(old_path), new_name) IN
         IF new_path = old_path THEN [fs |-> f, res |-> Ok(new_path)]
         ELSE [fs |-> fs_rename(fs_remove_dir_all(f, new_path), old_path, new_path),
               res |-> Ok(new_path)]

rename_file(f, old_path, new_name) ==
    IF ~Exists(f, old_path) THEN [fs |-> f, res |-> PathErr("Path does not exist")]
    ELSE IF old_path = Root
         THEN [fs |-> f, res |-> PathErr("Cannot determine parent directory")]
    ELSE LET new_path == Append(Parent(old_path), new_name) IN
         IF Exists(f, new_path)
         THEN [fs |-> f, res |-> PathErr("A file with that name already exists")]
         ELSE [fs |-> fs_rename(f, old_path, new_path), res |-> Ok(new_path)]

-----------------------------------------------------------------------------
(* The commands as actions.  Commands do not overlap here: a command runs   *)
(* to completion, its response is on its way to the caller (last), and the  *)
(* next command is issued once the response has been delivered.             *)

NoCommand == [op |-> "none", args |-> <<>>, res |-> Ok(Unit), pre |-> <<>>]

Idle == last.op = "none"

Done(op, args, res) ==
    [op |-> op, args |-> args, res |-> res,
     pre |-> [fs |-> fs, config_file |-> config_file, recent_files |-> recent_files]]

WithinBounds(f) ==
    /\ Cardinality(DOMAIN f) <= MaxEntries
    /\ \A p \in DOMAIN f : Len(p) <= MaxDepth

\* the paths the commands are called with: "/", what exists, and the names
\* that could exist directly below "/"
ArgPaths(names) == {Root} \cup DOMAIN fs \cup {<<n>> : n \in names}

ListWorkspaceFiles(workspace_path) ==
    /\ Idle
    /\ \E enum \in Enumerations(fs) :
          last' = Done("list_workspace_files", <<workspace_path>>,
                       list_workspace_files(fs, workspace_path, enum))
    /\ UNCHANGED <<fs, config_file, hist, recent_files, calls>>

CreateFile(base_path, name) ==
    LET r == create_file(fs, base_path, name) IN
    /\ Idle
    /\ fs' = r.fs
    /\ last' = Done("create_file", <<base_path, name>>, r.res)
    /\ UNCHANGED <<config_file, hist, recent_files, calls>>

CreateFolder(base_path, name) ==
    LET r == create_folder(fs, base_path, name) IN
    /\ Idle
    /\ fs' = r.fs
    /\ last' = Done("create_folder", <<base_path, name>>, r.res)
    /\ UNCHANGED <<config_file, hist, recent_files, calls>>

DeleteFile(path) ==
    LET r == delete_file(fs, path) IN
    /\ Idle
    /\ fs' = r.fs
    /\ last' = Done("delete_file", <<path>>, r.res)
    /\ UNCHANGED <<config_file, hist, recent_files, calls>>

RenameFile(old_path, new_name) ==
    LET r == rename_file(fs, old_path, new_name) IN
    /\ Idle
    /\ fs' = r.fs
    /\ last' = Done("rename_file", <<old_path, new_name>>, r.res)
    /\ UNCHANGED <<config_file, hist, recent_files, calls>>

\* the response reaches the caller
Respond ==
    /\ ~Idle
    /\ last' = NoCommand
    /\ UNCHANGED <<fs, config_file, hist, recent_files, calls>>

-----------------------------------------------------------------------------
(* The file-tree specification: an empty disk, then any commands.  Files    *)
(* are created under the names of FileNames and folders under those of      *)
(* DirNames; rename_file keeps an entry within its set of names.            *)

FileNames == {a_md, A_md, B_md, n_txt}
DirNames == {c_dir, D_dir}
TreeNames == FileNames \cup DirNames

NewNames(p) == IF p \in DOMAIN fs /\ fs[p].kind = "file" THEN FileNames ELSE DirNames

Init ==
    /\ fs = [p \in {} |-> DirEntry]
    /\ config_file = None
    /\ last = NoCommand
    /\ hist = <<>>
    /\ recent_files = None
    /\ calls = <<>>

\* the commands stay within the bounds of the model
Grows(f) == WithinBounds(f) \/ f = fs

Next ==
    \/ \E p \in ArgPaths(TreeNames) : ListWorkspaceFiles(p)
    \/ \E p \in {Root} \cup DOMAIN fs, n \in FileNames :
          Grows(create_file(fs, p, n).fs) /\ CreateFile(p, n)
    \/ \E p \in {Root} \cup DOMAIN fs, n \in DirNames :
          Grows(create_folder(fs, p, n).fs) /\ CreateFolder(p, n)
    \/ \E p \in ArgPaths(TreeNames) \ {Root} : DeleteFile(p)
    \/ \E p \in ArgPaths(TreeNames) : \E n \in NewNames(p) : RenameFile(p, n)
    \/ Respond

Spec == Init /\ [][Next]_vars

-----------------------------------------------------------------------------
(* The persisted WorkspaceConfig and its commands *)

RecentCapacity == 10

WorkspaceConfigDefault == [current_workspace |-> None, recent_workspaces |-> <<>>]

Workspace_label == <<"W", "o", "r", "k", "s", "p", "a", "c", "e">>

JsonErr(m) == Err("Json", m)

\* The content of workspace_config.json is the text of a WorkspaceConfig,
\* held as that config, or a text that is not one: the file as File::create
\* leaves it (no bytes), or bytes of two writers (len bytes)
TornContent(len) == [torn |-> TRUE, len |-> len]
is_document(content) == DOMAIN content = {"current_workspace", "recent_workspaces"}

\* serde_json::from_str::<WorkspaceConfig>
from_str(content) ==
    IF is_document(content) THEN Ok(content)
    ELSE IF content.len = 0 THEN JsonErr("EOF while parsing a value")
    ELSE JsonErr("trailing characters")

\* the file is read and parsed when it exists
load_workspace_config(cf) ==
    IF cf # None THEN from_str(cf[1]) ELSE Ok(WorkspaceConfigDefault)

\* the whole document is written
save_workspace_config(config) == Some(config)

get_workspace_info(path) ==
    Ok([path |-> path,
        name |-> IF path = Root THEN Workspace_label ELSE FileName(path)])

\* (mutant) without the check that the path still exists
get_current_workspace_unchecked(cf, f) ==
    LET config == load_workspace_config(cf).val IN
    IF config.current_workspace # None
    THEN [config_file |-> cf,
          res |-> Ok(Some(get_workspace_info(config.current_workspace[1]).val))]
    ELSE [config_file |-> cf, res |-> Ok(None)]

\* (mutant) a current_workspace whose path is gone is cleared in the file
get_current_workspace_clearing(cf, f) ==
    LET loaded == load_workspace_config(cf)
        config == loaded.val
    IN
    IF ~loaded.ok THEN [config_file |-> cf, res |-> loaded]
    ELSE IF config.current_workspace = None THEN [config_file |-> cf, res |-> Ok(None)]
    ELSE IF Exists(f, config.current_workspace[1])
    THEN [config_file |-> cf,
          res |-> Ok(Some(get_workspace_info(config.current_workspace[1]).val))]
    ELSE [config_file |-> save_workspace_config(
              [current_workspace |-> None,
               recent_workspaces |-> config.recent_workspaces]),
          res |-> Ok(None)]

get_current_workspace(cf, f) ==
    LET loaded == load_workspace_config(cf)
        config == loaded.val
    IN
    IF ~loaded.ok THEN [config_file |-> cf, res |-> loaded]
    ELSE IF config.current_workspace # None /\ Exists(f, config.current_workspace[1])
    THEN [config_file |-> cf,
          res |-> Ok(Some(get_workspace_info(config.current_workspace[1]).val))]
    ELSE [config_file |-> cf, res |-> Ok(None)]

insert_front(ws, w) == <<w>> \o ws
truncate(ws, n) == IF Len(ws) > n THEN SubSeq(ws, 1, n) ELSE ws

\* (mutant) without truncate
set_workspace_untruncated(cf, path) ==
    LET config == load_workspace_config(cf).val
        workspace == get_workspace_info(path).val
        keep(w) == w.path # workspace.path
    IN [config_file |-> save_workspace_config(
           [current_workspace |-> Some(path),
            recent_workspaces |->
                insert_front(SelectSeq(config.recent_workspaces, keep), workspace)]),
        res |-> Ok(Unit)]

\* (mutant) push in place of insert(0, ..)
set_workspace_push(cf, path) ==
    LET config == load_workspace_config(cf).val
        workspace == get_workspace_info(path).val
        keep(w) == w.path # workspace.path
    IN [config_file |-> save_workspace_config(
           [current_workspace |-> Some(path),
            recent_workspaces |->
                truncate(Append(SelectSeq(config.recent_workspaces, keep), workspace),
                         RecentCapacity)]),
        res |-> Ok(Unit)]

set_workspace(cf, path) ==
    LET loaded == load_workspace_config(cf)
        config == loaded.val
        workspace == get_workspace_info(path).val
        keep(w) == w.path # workspace.path
    \* retain, insert(0, ..), truncate(10), then the save
    IN IF ~loaded.ok THEN [config_file |-> cf, res |-> loaded] ELSE
       [config_file |-> save_workspace_config(
           [current_workspace |-> Some(path),
            recent_workspaces |->
                truncate(insert_front(SelectSeq(config.recent_workspaces, keep), workspace),
                         RecentCapacity)]),
        res |-> Ok(Unit)]

\* (mutant) the stored list is taken out of the config, which is saved back
get_recent_workspaces_taking(cf, f) ==
    LET config == load_workspace_config(cf).val
        exists(w) == Exists(f, w.path)
    IN [config_file |-> save_workspace_config(
           [current_workspace |-> config.current_workspace, recent_workspaces |-> <<>>]),
        res |-> Ok(SelectSeq(config.recent_workspaces, exists))]

\* (mutant) the filtered list is saved back
get_recent_workspaces_pruning(cf, f) ==
    LET config == load_workspace_config(cf).val
        exists(w) == Exists(f, w.path)
    IN [config_file |-> save_workspace_config(
           [current_workspace |-> config.current_workspace,
            recent_workspaces |-> SelectSeq(config.recent_workspaces, exists)]),
        res |-> Ok(SelectSeq(config.recent_workspaces, exists))]

get_recent_workspaces(cf, f) ==
    LET loaded == load_workspace_config(cf)
        config == loaded.val
        exists(w) == Exists(f, w.path)
    IN IF ~loaded.ok THEN [config_file |-> cf, res |-> loaded] ELSE
       [config_file |-> cf,
        res |-> Ok(SelectSeq(config.recent_workspaces, exists))]

GetCurrentWorkspace ==
    LET r == get_current_workspace(config_file, fs) IN
    /\ Idle
    /\ config_file' = r.config_file
    /\ last' = Done("get_current_workspace", <<>>, r.res)
    /\ UNCHANGED <<fs, hist, recent_files, calls>>

SetWorkspace(path) ==
    LET r == set_workspace(config_file, path) IN
    /\ Idle
    /\ config_file' = r.config_file
    /\ last' = Done("set_workspace", <<path>>, r.res)
    /\ hist' = Append(hist, path)
    /\ UNCHANGED <<fs, recent_files, calls>>

GetRecentWorkspaces ==
    LET r == get_recent_workspaces(config_file, fs) IN
    /\ Idle
    /\ config_file' = r.config_file
    /\ last' = Done("get_recent_workspaces", <<>>, r.res)
    /\ UNCHANGED <<fs, hist, recent_files, calls>>

-----------------------------------------------------------------------------
(* The config specification: NumWorkspaces folders below "/", no config     *)
(* file.  set_workspace is called with the folders in turn and, up to       *)
(* MaxReselect times, with a folder it was called with before; the first    *)
(* NumVolatile folders are deleted and created again.                       *)

Letters == <<"a", "b", "c", "d", "e", "f", "g", "h", "i", "j", "k", "l", "m", "n">>
WorkspacePath(i) == << <<Letters[i]>> >>
WorkspacePaths == {WorkspacePath(i) : i \in 1..NumWorkspaces}
VolatilePaths == {WorkspacePath(i) : i \in 1..NumVolatile}

Range(s) == {s[i] : i \in 1..Len(s)}
Used == Cardinality(Range(hist))

InitConfig ==
    /\ fs = [p \in WorkspacePaths |-> DirEntry]
    /\ config_file = None
    /\ last = NoCommand
    /\ hist = <<>>
    /\ recent_files = None
    /\ calls = <<>>

NextConfig ==
    \/ Used < NumWorkspaces /\ SetWorkspace(WorkspacePath(Used + 1))
    \/ \E p \in Range(hist) : Len(hist) - Used < MaxReselect /\ SetWorkspace(p)
    \/ GetRecentWorkspaces
    \/ GetCurrentWorkspace
    \/ \E p \in VolatilePaths : DeleteFile(p)
    \/ \E p \in VolatilePaths : CreateFolder(Parent(p), FileName(p))
    \/ Respond

SpecConfig == InitConfig /\ [][NextConfig]_vars

-----------------------------------------------------------------------------
(* save_file (commands.rs) and the creation specification: an empty disk;   *)
(* files and folders are created under the same names, so that a name can   *)
(* be taken by an entry of either kind, and files are given contents.       *)

save_file(f, path, content) == fs_write(f, path, content)

SaveFile(path, content) ==
    LET r == save_file(fs, path, content) IN
    /\ Idle
    /\ fs' = r.fs
    /\ last' = Done("save_file", <<path, content>>, r.res)
    /\ UNCHANGED <<config_file, hist, recent_files, calls>>

CreateNames == {a_md, c_dir}
Contents == {"x"}

NextCreate ==
    \/ \E p \in {Root} \cup DOMAIN fs, n \in CreateNames :
          Grows(create_file(fs, p, n).fs) /\ CreateFile(p, n)
    \/ \E p \in {Root} \cup DOMAIN fs, n \in CreateNames :
          Grows(create_folder(fs, p, n).fs) /\ CreateFolder(p, n)
    \/ \E p \in {Root} \cup DOMAIN fs, n \in CreateNames, c \in Contents :
          Grows(save_file(fs, Append(p, n), c).fs) /\ SaveFile(Append(p, n), c)
    \/ \E p \in DOMAIN fs : DeleteFile(p)
    \/ Respond

SpecCreate == Init /\ [][NextCreate]_vars

-----------------------------------------------------------------------------
(* file_ops::is_markdown_file and the classification specification: an      *)
(* empty disk, files created directly below "/" under names with the        *)
(* extensions to tell apart, then listings of "/" and is_markdown_file      *)
(* calls on paths below "/".                                                *)

is_markdown_file(path) ==
    LET ext == IF path = Root THEN None ELSE extension(FileName(path)) IN
    IF ext # None
    THEN LET ext_lower == to_lowercase(ext[1]) IN
         ext_lower = md \/ ext_lower = markdown \/ ext_lower = mdown
    ELSE FALSE

IsMarkdownFile(path) ==
    /\ Idle
    /\ last' = Done("is_markdown_file", <<path>>, Ok(is_markdown_file(path)))
    /\ UNCHANGED <<fs, config_file, hist, recent_files, calls>>

f_md == <<"f", ".", "m", "d">>
f_MD == <<"f", ".", "M", "D">>
f_Markdown == <<"f", ".", "M", "a", "r", "k", "d", "o", "w", "n">>
f_mdown == <<"f", ".", "m", "d", "o", "w", "n">>
f_txt == <<"f", ".", "t", "x", "t">>
f_rs == <<"f", ".", "r", "s">>
f_bare == <<"f">>
f_mdx == <<"f", ".", "m", "d", "x">>
f_md_txt == <<"f", ".", "m", "d", ".", "t", "x", "t">>
dot_md == <<".", "m", "d">>

ClassifyNames ==
    {f_md, f_MD, f_Markdown, f_mdown, f_txt, f_rs, f_bare, md, f_mdx, f_md_txt, dot_md}

NextClassify ==
    \/ \E n \in ClassifyNames : Grows(create_file(fs, Root, n).fs) /\ CreateFile(Root, n)
    \/ ListWorkspaceFiles(Root)
    \/ \E n \in ClassifyNames : IsMarkdownFile(<<n>>)
    \/ Respond

SpecClassify == Init /\ [][NextClassify]_vars

-----------------------------------------------------------------------------
(* The exclusion specification: an empty disk; folders are created under a  *)
(* plain name and under the excluded names, files under a markdown name and *)
(* a hidden markdown name, at any depth; "/" and every folder are listed.   *)

dot_git == <<".", "g", "i", "t">>

ExcludedFileNames == {a_md, dot_md}
ExcludedDirNames == {c_dir, dot_git, node_modules, target}

GrowsExcluded(f) ==
    \/ f = fs
    \/ /\ Cardinality(DOMAIN f) <= MaxEntries
       /\ \A p \in DOMAIN f : Len(p) <= MaxExcludedDepth

NextExcluded ==
    \/ \E p \in Dirs(fs) : ListWorkspaceFiles(p)
    \/ \E p \in Dirs(fs), n \in ExcludedFileNames :
          GrowsExcluded(create_file(fs, p, n).fs) /\ CreateFile(p, n)
    \/ \E p \in Dirs(fs), n \in ExcludedDirNames :
          GrowsExcluded(create_folder(fs, p, n).fs) /\ CreateFolder(p, n)
    \/ Respond

SpecExcluded == Init /\ [][NextExcluded]_vars

-----------------------------------------------------------------------------
(* The unreadable-folder specification: an empty disk; files and folders    *)
(* are created, and outside the program the read permission of a folder is  *)
(* taken away or given back, so that read_dir on it fails.                  *)

Chmod(path) ==
    /\ Idle
    /\ fs' = [fs EXCEPT ![path].readable = ~fs[path].readable]
    /\ UNCHANGED <<config_file, last, hist, recent_files, calls>>

UnreadableFileNames == {a_md, B_md}

NextUnreadable ==
    \/ \E p \in Dirs(fs) : ListWorkspaceFiles(p)
    \/ \E p \in Dirs(fs), n \in UnreadableFileNames :
          Grows(create_file(fs, p, n).fs) /\ CreateFile(p, n)
    \/ \E p \in Dirs(fs), n \in DirNames :
          Grows(create_folder(fs, p, n).fs) /\ CreateFolder(p, n)
    \/ \E p \in Dirs(fs) \ {Root} : Chmod(p)
    \/ Respond

SpecUnreadable == Init /\ [][NextUnreadable]_vars

-----------------------------------------------------------------------------
(* The config file under commands that overlap.  tokio::fs::write is        *)
(* File::create, which leaves the file with no bytes, followed by           *)
(* write_all, which puts the text at offset 0; a command is suspended at    *)
(* each of these calls, and other commands run in between.                  *)

RECURSIVE SumSeq(_)
SumSeq(s) == IF s = <<>> THEN 0 ELSE Head(s) + SumSeq(Tail(s))

\* bytes of a path as a string: "/" and the components joined by "/"
path_len(p) == IF p = Root THEN 1 ELSE SumSeq([k \in 1..Len(p) |-> 1 + Len(p[k])])

\* bytes of serde_json::to_string_pretty(config)
json_len(config) ==
    LET ws == config.recent_workspaces
        current == IF config.current_workspace = None THEN 4
                   ELSE 2 + path_len(config.current_workspace[1])
        entry(w) == 46 + path_len(w.path) + Len(w.name)
        array == IF ws = <<>> THEN 2
                 ELSE 2 + SumSeq([k \in 1..Len(ws) |-> entry(ws[k])])
                        + 2 * (Len(ws) - 1) + 4
    IN 2 + 23 + current + 2 + 23 + array + 2

file_len(cf) ==
    IF cf = None THEN 0
    ELSE IF is_document(cf[1]) THEN json_len(cf[1])
    ELSE cf[1].len

\* File::create: the file exists and has no bytes
file_create(cf) == Some(TornContent(0))

\* write_all at offset 0 of a file that was opened before: the bytes beyond
\* the text, put there by another writer in between, stay
file_write_all(cf, config) ==
    IF json_len(config) >= file_len(cf) THEN Some(config)
    ELSE Some(TornContent(file_len(cf)))

RaceCall(op, path) ==
    [op |-> op, path |-> path, pc |-> "load", config |-> WorkspaceConfigDefault,
     seen |-> None, res |-> Ok(Unit), seq |-> 0]

Writes == {calls[i].seq : i \in DOMAIN calls}
LastSeq == CHOOSE n \in Writes : \A m \in Writes : m <= n

\* set_workspace up to the return of load_workspace_config, and the update
\* of the config in memory
SetWorkspaceLoad(i) ==
    /\ calls[i].op = "set_workspace" /\ calls[i].pc = "load"
    /\ LET r == set_workspace(config_file, calls[i].path) IN
       calls' = IF r.res.ok
                THEN [calls EXCEPT ![i].pc = "create", ![i].seen = config_file,
                                   ![i].config = r.config_file[1]]
                ELSE [calls EXCEPT ![i].pc = "done", ![i].seen = config_file,
                                   ![i].res = r.res]
    /\ UNCHANGED <<fs, config_file, last, hist, recent_files>>

\* save_workspace_config up to File::create
SetWorkspaceCreate(i) ==
    /\ calls[i].op = "set_workspace" /\ calls[i].pc = "create"
    /\ config_file' = file_create(config_file)
    /\ calls' = [calls EXCEPT ![i].pc = "write"]
    /\ UNCHANGED <<fs, last, hist, recent_files>>

\* write_all, and the return of set_workspace
SetWorkspaceWrite(i) ==
    /\ calls[i].op = "set_workspace" /\ calls[i].pc = "write"
    /\ config_file' = file_write_all(config_file, calls[i].config)
    /\ calls' = [calls EXCEPT ![i].pc = "done", ![i].res = Ok(Unit),
                              ![i].seq = LastSeq + 1]
    /\ UNCHANGED <<fs, last, hist, recent_files>>

\* get_current_workspace and get_recent_workspaces read the file once
ReadConfig(i) ==
    /\ calls[i].op \in {"get_current_workspace", "get_recent_workspaces"}
    /\ calls[i].pc = "load"
    /\ LET r == IF calls[i].op = "get_current_workspace"
                THEN get_current_workspace(config_file, fs)
                ELSE get_recent_workspaces(config_file, fs)
       IN calls' = [calls EXCEPT ![i].pc = "done", ![i].seen = config_file,
                                 ![i].res = r.res]
    /\ UNCHANGED <<fs, config_file, last, hist, recent_files>>

-----------------------------------------------------------------------------
(* The race specification: NumRacePaths folders, the config file as up to   *)
(* MaxPreset set_workspace calls left it, and three commands in flight: two *)
(* set_workspace calls with different paths and one reading command.        *)

RacePaths == {WorkspacePath(i) : i \in 1..NumRacePaths}

RECURSIVE ConfigsAfter(_)
ConfigsAfter(n) ==
    IF n = 0 THEN {None}
    ELSE LET prev == ConfigsAfter(n - 1) IN
         prev \cup {set_workspace(cf, p).config_file : cf \in prev, p \in RacePaths}

InitRace ==
    /\ fs = [p \in RacePaths |-> DirEntry]
    /\ config_file \in ConfigsAfter(MaxPreset)
    /\ last = NoCommand
    /\ hist = <<>>
    /\ recent_files = None
    /\ \E p \in RacePaths : \E q \in RacePaths \ {p} :
       \E op \in {"get_current_workspace", "get_recent_workspaces"} :
          calls = << RaceCall("set_workspace", p), RaceCall("set_workspace", q),
                     RaceCall(op, Root) >>

NextRace ==
    \/ \E i \in DOMAIN calls : SetWorkspaceLoad(i)
    \/ \E i \in DOMAIN calls : SetWorkspaceCreate(i)
    \/ \E i \in DOMAIN calls : SetWorkspaceWrite(i)
    \/ \E i \in DOMAIN calls : ReadConfig(i)

SpecRace == InitRace /\ [][NextRace]_vars

-----------------------------------------------------------------------------
(* The recent-files list (commands.rs) and its specification: no            *)
(* recent_files.json; add_recent_file is called with NumRecentFiles paths   *)
(* in turn and, up to MaxReselect times, with a path it was called with     *)
(* before.                                                                  *)

RecentFilesCapacity == 10

\* the list in the file, empty when there is no file
read_recent_files(rf) == IF rf # None THEN rf[1] ELSE <<>>

get_recent_files(rf) == [recent_files |-> rf, res |-> Ok(read_recent_files(rf))]

\* (mutant) without retain
add_recent_file_keeping(rf, path) ==
    [recent_files |->
        Some(truncate(insert_front(read_recent_files(rf), path), RecentFilesCapacity)),
     res |-> Ok(Unit)]

add_recent_file(rf, path) ==
    LET files == read_recent_files(rf)
        keep(f) == f # path
    \* retain, insert(0, ..), truncate(10), then the write
    IN [recent_files |->
           Some(truncate(insert_front(SelectSeq(files, keep), path), RecentFilesCapacity)),
        res |-> Ok(Unit)]

GetRecentFiles ==
    LET r == get_recent_files(recent_files) IN
    /\ Idle
    /\ recent_files' = r.recent_files
    /\ last' = Done("get_recent_files", <<>>, r.res)
    /\ UNCHANGED <<fs, config_file, hist, calls>>

AddRecentFile(path) ==
    LET r == add_recent_file(recent_files, path) IN
    /\ Idle
    /\ recent_files' = r.recent_files
    /\ last' = Done("add_recent_file", <<path>>, r.res)
    /\ hist' = Append(hist, path)
    /\ UNCHANGED <<fs, config_file, calls>>

FilePath(i) == << <<Letters[i]>>, a_md >>

NextRecent ==
    \/ Used < NumRecentFiles /\ AddRecentFile(FilePath(Used + 1))
    \/ \E p \in Range(hist) : Len(hist) - Used < MaxReselect /\ AddRecentFile(p)
    \/ GetRecentFiles
    \/ Respond

SpecRecent == Init /\ [][NextRecent]_vars

-----------------------------------------------------------------------------
(* create_file under commands that overlap: the call is suspended between   *)
(* its check that the path is free and its write.  The creation-race        *)
(* specification: a disk without entries or with one file with content,     *)
(* and three commands in flight: two create_file calls and one save_file.   *)

CreateCall(base_path, name) ==
    [op |-> "create_file", path |-> Append(base_path, name), content |-> "",
     pc |-> "check", found |-> None, res |-> Ok(Unit)]

SaveCall(path, content) ==
    [op |-> "save_file", path |-> path, content |-> content,
     pc |-> "write", found |-> None, res |-> Ok(Unit)]

\* what is at the path when a write reaches it
Found(path) == IF path \in DOMAIN fs THEN Some(fs[path]) ELSE None

\* create_file up to the return of file_path.exists()
CreateFileCheck(i) ==
    /\ calls[i].op = "create_file" /\ calls[i].pc = "check"
    /\ calls' = IF Exists(fs, calls[i].path)
                THEN [calls EXCEPT ![i].pc = "done",
                                   ![i].res = PathErr("File already exists")]
                ELSE [calls EXCEPT ![i].pc = "write"]
    /\ UNCHANGED <<fs, config_file, last, hist, recent_files>>

\* tokio::fs::write(&file_path, ""), and the return of create_file
CreateFileWrite(i) ==
    LET w == fs_write(fs, calls[i].path, "") IN
    /\ calls[i].op = "create_file" /\ calls[i].pc = "write"
    /\ fs' = w.fs
    /\ calls' = [calls EXCEPT ![i].pc = "done", ![i].found = Found(calls[i].path),
                              ![i].res = IF w.res.ok THEN Ok(calls[i].path) ELSE w.res]
    /\ UNCHANGED <<config_file, last, hist, recent_files>>

SaveFileWrite(i) ==
    LET w == save_file(fs, calls[i].path, calls[i].content) IN
    /\ calls[i].op = "save_file" /\ calls[i].pc = "write"
    /\ fs' = w.fs
    /\ calls' = [calls EXCEPT ![i].pc = "done", ![i].found = Found(calls[i].path),
                              ![i].res = w.res]
    /\ UNCHANGED <<config_file, last, hist, recent_files>>

CreateRaceNames == {a_md, B_md}

InitCreateRace ==
    /\ fs \in {[p \in {} |-> DirEntry]}
              \cup {[p \in {<<n>>} |-> FileEntry("x")] : n \in CreateRaceNames}
    /\ config_file = None
    /\ last = NoCommand
    /\ hist = <<>>
    /\ recent_files = None
    /\ \E n \in CreateRaceNames : \E m \in CreateRaceNames : \E k \in CreateRaceNames :
          calls = << CreateCall(Root, n), CreateCall(Root, m), SaveCall(<<k>>, "x") >>

NextCreateRace ==
    \/ \E i \in DOMAIN calls : CreateFileCheck(i)
    \/ \E i \in DOMAIN calls : CreateFileWrite(i)
    \/ \E i \in DOMAIN calls : SaveFileWrite(i)

SpecCreateRace == InitCreateRace /\ [][NextCreateRace]_vars

-----------------------------------------------------------------------------
(* The frame specification: an empty disk and no config file, then every    *)
(* command of the tree and of the config, one at a time.  set_workspace is  *)
(* called, up to MaxSetCalls times, with the paths of the folders directly  *)
(* below "/".                                                               *)

FrameFileNames == {a_md}
FrameNames == FrameFileNames \cup DirNames
FramePaths == {<<n>> : n \in DirNames}

FrameNewNames(p) ==
    IF p \in DOMAIN fs /\ fs[p].kind = "file" THEN FrameFileNames \cup {B_md} ELSE DirNames

NextFrame ==
    \/ \E p \in ArgPaths(FrameNames) : ListWorkspaceFiles(p)
    \/ \E p \in {Root} \cup DOMAIN fs, n \in FrameFileNames :
          Grows(create_file(fs, p, n).fs) /\ CreateFile(p, n)
    \/ \E p \in {Root} \cup DOMAIN fs, n \in DirNames :
          Grows(create_folder(fs, p, n).fs) /\ CreateFolder(p, n)
    \/ \E p \in DOMAIN fs : DeleteFile(p)
    \/ \E p \in DOMAIN fs : \E n \in FrameNewNames(p) : RenameFile(p, n)
    \/ \E p \in FramePaths : Len(hist) < MaxSetCalls /\ SetWorkspace(p)
    \/ GetCurrentWorkspace
    \/ GetRecentWorkspaces
    \/ Respond

SpecFrame == Init /\ [][NextFrame]_vars

-----------------------------------------------------------------------------
(* Reading a listing *)

RECURSIVE AllNodes(_)
\* the nodes of a listing at every depth
AllNodes(files) ==
    UNION {{files[i]} \cup (IF files[i].children = None THEN {}
                            ELSE AllNodes(files[i].children[1])) : i \in 1..Len(files)}

\* the sibling sequences of a listing: its top level and every children sequence
SiblingSeqs(files) ==
    {files} \cup {n.children[1] : n \in {m \in AllNodes(files) : m.children # None}}

RECURSIVE HasLeaf(_)
\* a node that is a leaf file, or a directory with a leaf file somewhere below it
HasLeaf(n) ==
    IF ~n.is_directory THEN TRUE
    ELSE /\ n.children # None
         /\ \E i \in 1..Len(n.children[1]) : HasLeaf(n.children[1][i])

\* lower-cased byte of a character, and the case-insensitive lexicographic order
Fold(c) == IF CharCode[c] >= 65 /\ CharCode[c] <= 90 THEN CharCode[c] + 32 ELSE CharCode[c]
CaseInsensitiveLeq(a, b) ==
    \/ Len(a) <= Len(b) /\ \A i \in 1..Len(a) : Fold(a[i]) = Fold(b[i])
    \/ \E k \in 1..Len(a) :
          /\ k <= Len(b)
          /\ \A i \in 1..(k - 1) : Fold(a[i]) = Fold(b[i])
          /\ Fold(a[k]) < Fold(b[k])

Listed == last.op = "list_workspace_files" /\ last.res.ok
Leaf(name, path) == [name |-> name, path |-> path, is_directory |-> FALSE, children |-> None]
MarkdownNames == {a_md, A_md, B_md}

-----------------------------------------------------------------------------
(* C1: no listing holds, at any depth, the top level included, a directory  *)
(* node whose children are empty: every directory node has a markdown leaf  *)
(* somewhere below it.                                                      *)
C1_NoEmptyDirectoryNode ==
    Listed =>
      \A n \in AllNodes(last.res.val) :
         n.is_directory => n.children # Some(<<>>) /\ HasLeaf(n)

(* C2: in every sibling sequence of a listing the directories precede the   *)
(* files, and the names within the directories and within the files are in  *)
(* case-insensitive lexicographic order.                                    *)
C2_SiblingsOrdered ==
    Listed =>
      \A s \in SiblingSeqs(last.res.val) :
         \A i, j \in 1..Len(s) :
            i < j =>
              /\ s[i].is_directory \/ ~s[j].is_directory
              /\ s[i].is_directory = s[j].is_directory
                    => CaseInsensitiveLeq(s[i].name, s[j].name)

\* a listing with a folder in front of a.md in front of B.md
C2_Witness ==
    /\ Listed
    /\ \E s \in SiblingSeqs(last.res.val) :
          /\ Len(s) >= 3
          /\ s[1].is_directory
          /\ s[2].name = a_md /\ ~s[2].is_directory
          /\ s[3].name = B_md /\ ~s[3].is_directory

(* C3: the listing of a fixed directory content is the same tree for every  *)
(* order in which the filesystem enumerates the entries of the directories. *)
C3_ListingDeterministic ==
    Listed =>
      \A enum \in Enumerations(fs) :
         list_workspace_files(fs, last.args[1], enum) = last.res

(* C4: a successful create_file(dir, x.md) returns dir/x.md, and a listing  *)
(* of dir that follows has at its top level the leaf node x.md at dir/x.md. *)
(* Stated for every name with the extension md.                             *)
C4_CreateThenList ==
    (last.op = "create_file" /\ last.res.ok /\ last.args[2] \in MarkdownNames) =>
      LET dir == last.args[1]
          name == last.args[2]
      IN /\ last.res.val = Append(dir, name)
         /\ \A enum \in Enumerations(fs) :
               LET r == list_workspace_files(fs, dir, enum) IN
               /\ r.ok
               /\ \E i \in 1..Len(r.val) : r.val[i] = Leaf(name, Append(dir, name))

\* a.md created in a folder that holds other entries
C4_Witness ==
    /\ last.op = "create_file" /\ last.res.ok
    /\ last.args[2] = a_md
    /\ last.args[1] # Root
    /\ IsDir(last.pre.fs, last.args[1])
    /\ ~Exists(last.pre.fs, Append(last.args[1], a_md))
    /\ Cardinality(ChildNames(fs, last.args[1])) >= 2

(* C5: rename_file(old, new_name) with an entry new_name in the directory   *)
(* of old fails with a PathError and changes nothing on disk; when old      *)
(* exists the error is the already-exists one.                              *)
C5_RenameOntoExisting ==
    (/\ last.op = "rename_file"
     /\ last.args[1] # Root
     /\ Exists(last.pre.fs, Append(Parent(last.args[1]), last.args[2]))) =>
      /\ ~last.res.ok
      /\ last.res.kind = "Path"
      /\ fs = last.pre.fs
      /\ Exists(last.pre.fs, last.args[1])
            => last.res.msg = "A file with that name already exists"

\* a rename of one existing entry onto another existing entry
C5_Witness ==
    /\ last.op = "rename_file"
    /\ Exists(last.pre.fs, last.args[1])
    /\ last.args[1] # Root
    /\ FileName(last.args[1]) # last.args[2]
    /\ Exists(last.pre.fs, Append(Parent(last.args[1]), last.args[2]))
    /\ ~last.res.ok

(* C8: delete_file on an existing directory removes it and everything below *)
(* it and nothing else, and a listing of its parent that follows has no     *)
(* node for it; on an existing file it removes that file alone.             *)
C8_DeleteRemovesSubtree ==
    (last.op = "delete_file" /\ Exists(last.pre.fs, last.args[1])) =>
      LET path == last.args[1]
          before == last.pre.fs
          gone == IF IsDir(before, path)
                  THEN {q \in DOMAIN before : IsPrefix(path, q)}
                  ELSE {path}
      IN /\ last.res.ok
         /\ DOMAIN fs = DOMAIN before \ gone
         /\ \A q \in DOMAIN fs : fs[q] = before[q]
         /\ \A enum \in Enumerations(fs) :
               LET r == list_workspace_files(fs, Parent(path), enum) IN
               /\ r.ok
               /\ \A n \in AllNodes(r.val) : ~IsPrefix(path, n.path)

\* a folder with a file and a folder inside was deleted, another entry is left
C8_Witness ==
    /\ last.op = "delete_file" /\ last.res.ok
    /\ LET path == last.args[1]
           before == last.pre.fs
       IN /\ IsDir(before, path)
          /\ \E q \in DOMAIN before :
                Parent(q) = path /\ before[q].kind = "file"
          /\ \E q \in DOMAIN before :
                Parent(q) = path /\ before[q].kind = "dir"
          /\ DOMAIN fs # {}

-----------------------------------------------------------------------------
(* Reading the stored config *)

Stored == load_workspace_config(config_file).val
StoredBefore == load_workspace_config(last.pre.config_file).val
PathsOf(ws) == [i \in 1..Len(ws) |-> ws[i].path]
LastCall(p) == CHOOSE i \in 1..Len(hist) : hist[i] = p /\ \A j \in (i + 1)..Len(hist) : hist[j] # p
Distinct(s) == \A i, j \in 1..Len(s) : i # j => s[i] # s[j]
SmallerOf(a, b) == IF a < b THEN a ELSE b

(* C6: after any sequence of completed set_workspace calls the stored list  *)
(* has at most 10 entries, no path twice, and, once a call was made, the    *)
(* path of the last call first, which is also current_workspace.            *)
C6_RecentBoundedDistinct ==
    /\ Len(Stored.recent_workspaces) <= 10
    /\ Distinct(PathsOf(Stored.recent_workspaces))
    /\ hist # <<>> =>
          /\ Stored.recent_workspaces # <<>>
          /\ Stored.recent_workspaces[1].path = hist[Len(hist)]
          /\ Stored.current_workspace = Some(hist[Len(hist)])

\* a full list, after more calls than paths
C6_Witness ==
    /\ Len(Stored.recent_workspaces) = 10
    /\ Len(hist) > Used
    /\ Used > 10

(* C7: set_workspace(p) turns the stored list L into p, then the entries of *)
(* L other than p in their order, cut to 10; so after any calls the list is *)
(* the 10 most recently used paths, most recent first.                      *)
C7_MoveToFrontTruncate ==
    last.op = "set_workspace" =>
       LET path == last.args[1]
           L == StoredBefore.recent_workspaces
           others == SelectSeq(L, LAMBDA w : w.path # path)
           now == Stored.recent_workspaces
           when == [q \in Range(hist) |-> LastCall(q)]
       IN /\ Len(now) = SmallerOf(10, Len(others) + 1)
          /\ now[1].path = path
          /\ \A i \in 2..Len(now) : now[i] = others[i - 1]
          /\ Len(now) = SmallerOf(10, Used)
          /\ \A k \in 1..Len(now) :
                /\ now[k].path \in Range(hist)
                /\ Cardinality({q \in Range(hist) : when[q] > when[now[k].path]}) = k - 1

\* 11 calls with 11 paths, then a call with the second most recent of them
C7_Witness ==
    /\ last.op = "set_workspace"
    /\ Len(hist) = 12
    /\ Distinct(SubSeq(hist, 1, 11))
    /\ hist[12] = hist[10]
    /\ Len(StoredBefore.recent_workspaces) = 10
    /\ PathsOf(StoredBefore.recent_workspaces) = [i \in 1..10 |-> hist[12 - i]]
    /\ Len(Stored.recent_workspaces) = 10

(* C9: a second get_recent_workspaces, with nothing done in between,        *)
(* returns what the first returned.                                         *)
C9_GetRecentIdempotent ==
    last.op = "get_recent_workspaces" =>
       get_recent_workspaces(config_file, fs).res = last.res

\* a first call that returned some of the stored entries and left out others
C9_Witness ==
    /\ last.op = "get_recent_workspaces"
    /\ Len(last.res.val) >= 2
    /\ Len(last.res.val) < Len(Stored.recent_workspaces)

(* C10: get_recent_workspaces returns the stored entries whose path exists, *)
(* in the stored order, and leaves the stored config as it was: an entry    *)
(* whose path does not exist is left out and stays stored.                  *)
C10_GetRecentFiltersOnly ==
    last.op = "get_recent_workspaces" =>
       LET S == StoredBefore.recent_workspaces
           R == last.res.val
           Pos(w) == CHOOSE i \in 1..Len(S) : S[i] = w
       IN /\ last.res.ok
          /\ config_file = last.pre.config_file
          /\ fs = last.pre.fs
          /\ \A w \in Range(R) : w \in Range(S) /\ Exists(fs, w.path)
          /\ \A w \in Range(S) : Exists(fs, w.path) => w \in Range(R)
          /\ \A i, j \in 1..Len(R) : i < j => Pos(R[i]) < Pos(R[j])

\* the folder of a stored entry was deleted: the entry is left out and stored
C10_Witness ==
    /\ last.op = "get_recent_workspaces"
    /\ \E i \in 1..Len(Stored.recent_workspaces) :
          /\ ~Exists(fs, Stored.recent_workspaces[i].path)
          /\ Stored.recent_workspaces[i] \notin Range(last.res.val)
    /\ last.res.val # <<>>

(* C11: get_current_workspace answers with the workspace (path and name) of *)
(* the last set_workspace call when that path exists, with none and never   *)
(* an error when no call was made or the path is gone, and leaves the       *)
(* stored config as it was.                                                 *)
C11_CurrentWorkspace ==
    last.op = "get_current_workspace" =>
       /\ last.res.ok
       /\ config_file = last.pre.config_file
       /\ IF hist # <<>> /\ hist[Len(hist)] \in DOMAIN last.pre.fs
          THEN LET p == hist[Len(hist)] IN
               last.res.val = Some([path |-> p, name |-> p[Len(p)]])
          ELSE last.res.val = None

\* the current workspace was set, its folder then deleted, and the command
\* answered none
C11_Witness ==
    /\ last.op = "get_current_workspace"
    /\ hist # <<>>
    /\ hist[Len(hist)] \notin DOMAIN fs
    /\ last.res = Ok(None)
    /\ config_file # None

(* C12: create_file and create_folder fail with the already-exists path     *)
(* error whenever base_path/name exists, whatever kind of entry it is, and  *)
(* leave the disk (the entry and its content) as it was; a call that        *)
(* succeeds leaves the path existing, so the same call made again fails.    *)
C12_CreateNotIdempotent ==
    last.op \in {"create_file", "create_folder"} =>
       LET path == Append(last.args[1], last.args[2]) IN
       /\ (path \in DOMAIN last.pre.fs) =>
             /\ last.res = PathErr(IF last.op = "create_file"
                                   THEN "File already exists"
                                   ELSE "Folder already exists")
             /\ fs = last.pre.fs
       /\ last.res.ok =>
             /\ path \in DOMAIN fs
             /\ fs[path].kind = (IF last.op = "create_file" THEN "file" ELSE "dir")

\* create_file was called on the path of a file with content, and failed
C12_Witness ==
    /\ last.op = "create_file"
    /\ LET path == Append(last.args[1], last.args[2]) IN
       /\ path \in DOMAIN fs
       /\ fs[path].kind = "file"
       /\ fs[path].content = "x"
    /\ ~last.res.ok

AcceptedNames == {f_md, f_MD, f_Markdown, f_mdown}
RejectedNames == {f_txt, f_rs, f_bare, md, f_mdx, f_md_txt}

(* C13: a file that is not excluded is listed as a leaf exactly when its    *)
(* lower-cased extension is md, markdown or mdown (f.md, f.MD, f.Markdown   *)
(* and f.mdown are, f.txt, f.rs and a name without extension are not), and  *)
(* is_markdown_file answers, on every file name, what the listing does.     *)
C13_MarkdownFilter ==
    /\ (Listed /\ last.args = <<Root>>) =>
          /\ \A n \in AcceptedNames :
                <<n>> \in DOMAIN fs => Leaf(n, <<n>>) \in AllNodes(last.res.val)
          /\ \A n \in AllNodes(last.res.val) :
                n.name \in AcceptedNames /\ n.name \notin RejectedNames
          /\ \A q \in DOMAIN fs :
                is_markdown_file(q) /\ ~starts_with(FileName(q), ".")
                   <=> Leaf(FileName(q), q) \in AllNodes(last.res.val)
    /\ last.op = "is_markdown_file" =>
          LET q == last.args[1] IN
          /\ last.res.val = (FileName(q) \in AcceptedNames)
          /\ (q \in DOMAIN fs /\ ~starts_with(FileName(q), ".")) =>
                \A enum \in Enumerations(fs) :
                   last.res.val
                      <=> Leaf(FileName(q), q)
                             \in AllNodes(list_workspace_files(fs, Root, enum).val)

\* f.MD and f.Markdown are listed next to a name without extension and f.rs,
\* which are not
C13_Witness ==
    /\ Listed
    /\ DOMAIN fs = {<<f_MD>>, <<f_Markdown>>, <<f_bare>>, <<f_rs>>}
    /\ {n.name : n \in AllNodes(last.res.val)} = {f_MD, f_Markdown}

ExcludedName(n) == n[1] = "." \/ n \in {node_modules, target}

(* C14: no node of a listing, at any depth, has a name that begins with '.' *)
(* or is node_modules or target, and none lies below such an entry; a       *)
(* directory node below the top level has a markdown file below it that is  *)
(* reached without passing an excluded entry, so a markdown file below an   *)
(* excluded directory neither appears nor keeps an ancestor in the listing. *)
C14_ExcludedSkipped ==
    Listed =>
       LET root == last.args[1] IN
       \A n \in AllNodes(last.res.val) :
          /\ ~ExcludedName(n.name)
          /\ \A k \in (Len(root) + 1)..Len(n.path) : ~ExcludedName(n.path[k])
          /\ (n.is_directory /\ Len(n.path) > Len(root) + 1) =>
                \E q \in DOMAIN fs :
                   /\ fs[q].kind = "file"
                   /\ IsPrefix(n.path, q)
                   /\ FileName(q) = a_md
                   /\ \A k \in (Len(root) + 1)..Len(q) : ~ExcludedName(q[k])

\* /c/c holds a markdown file below target alone: the listing of "/" is /c
\* without children
C14_Witness ==
    /\ Listed /\ last.args = <<Root>>
    /\ DOMAIN fs = {<<c_dir>>, <<c_dir, c_dir>>, <<c_dir, c_dir, target>>,
                    <<c_dir, c_dir, target, a_md>>}
    /\ last.res.val = << [name |-> c_dir, path |-> <<c_dir>>, is_directory |-> TRUE,
                          children |-> Some(<<>>)] >>

\* the folders strictly between root and q, root excluded
Between(root, q) == {SubSeq(q, 1, k) : k \in (Len(root) + 1)..(Len(q) - 1)}

(* C15: list_workspace_files on an existing readable root succeeds also     *)
(* when folders below it cannot be read: its leaves are the markdown files  *)
(* reached through readable folders alone, no node lies below a folder that *)
(* cannot be read, and the failure is not returned.                         *)
C15_PartialFailureIsolated ==
    (last.op = "list_workspace_files"
        /\ IsDir(fs, last.args[1]) /\ Readable(fs, last.args[1])) =>
       LET root == last.args[1]
           nodes == AllNodes(last.res.val)
       IN /\ last.res.ok
          /\ {n.path : n \in {m \in nodes : ~m.is_directory}}
                = {q \in DOMAIN fs :
                     /\ fs[q].kind = "file"
                     /\ FileName(q) \in MarkdownNames
                     /\ IsPrefix(root, q)
                     /\ \A d \in Between(root, q) : fs[d].readable}
          /\ \A n \in nodes : \A d \in Between(root, n.path) : fs[d].readable
          /\ \A n \in nodes : (n.is_directory /\ ~fs[n.path].readable) =>
                (n.children = None \/ n.children = Some(<<>>))

\* /D/c cannot be read and holds a markdown file; the listing of "/" is /D
\* with /D/a.md
C15_Witness ==
    /\ Listed /\ last.args = <<Root>>
    /\ DOMAIN fs = {<<D_dir>>, <<D_dir, c_dir>>, <<D_dir, c_dir, a_md>>, <<D_dir, a_md>>}
    /\ ~fs[<<D_dir, c_dir>>].readable
    /\ fs[<<D_dir>>].readable
    /\ last.res.val = << [name |-> D_dir, path |-> <<D_dir>>, is_directory |-> TRUE,
                          children |-> Some(<< Leaf(a_md, <<D_dir, a_md>>) >>)] >>

SetWorkspaceCalls == {i \in DOMAIN calls : calls[i].op = "set_workspace"}
Writers == {i \in SetWorkspaceCalls : calls[i].seq > 0}
LastWriter == CHOOSE i \in Writers : calls[i].seq = LastSeq

(* C16: when the set_workspace calls that ran at the same time have         *)
(* returned, the config file holds the config that the call which wrote     *)
(* last computed from the config it had read, and current_workspace is the  *)
(* path of that call.                                                       *)
C16_LastWriteWins ==
    ((\A i \in SetWorkspaceCalls : calls[i].pc = "done") /\ Writers # {}) =>
       /\ config_file = Some(calls[LastWriter].config)
       /\ calls[LastWriter].config.current_workspace = Some(calls[LastWriter].path)

\* both calls read the same config and wrote, and the path of the one that
\* wrote first is not in the stored list
C16_LostUpdate ==
    /\ \A i \in SetWorkspaceCalls : calls[i].pc = "done" /\ calls[i].seq > 0
    /\ config_file # None /\ is_document(config_file[1])
    /\ \E i \in SetWorkspaceCalls :
          \A k \in 1..Len(config_file[1].recent_workspaces) :
             config_file[1].recent_workspaces[k].path # calls[i].path

(* C17: a get_current_workspace or get_recent_workspaces call that runs at  *)
(* the same time as set_workspace calls reads a complete document (or no    *)
(* file) and does not fail.                                                 *)
C17_ReaderSeesCompleteConfig ==
    \A i \in DOMAIN calls :
       (calls[i].op \in {"get_current_workspace", "get_recent_workspaces"}
           /\ calls[i].pc = "done") =>
          /\ calls[i].seen = None \/ is_document(calls[i].seen[1])
          /\ calls[i].res.ok

(* C18: rename_file(old_path, new_name) on an existing old_path whose       *)
(* parent/new_name is free returns parent/new_name; old_path is gone, the   *)
(* new path, in the same directory, holds what old_path held (the file, or  *)
(* the directory with all that was below it), and every other entry is as   *)
(* before.  On an old_path that does not exist it fails with a path error   *)
(* and the disk is as before.                                               *)
C18_RenameFrame ==
    (last.op = "rename_file" /\ last.args[1] # Root) =>
       LET old == last.args[1]
           before == last.pre.fs
           new == Append(SubSeq(old, 1, Len(old) - 1), last.args[2])
           below == {q \in DOMAIN before : IsPrefix(old, q)}
           image(q) == new \o SubSeq(q, Len(old) + 1, Len(q))
       IN /\ old \notin DOMAIN before =>
                /\ ~last.res.ok /\ last.res.kind = "Path"
                /\ fs = before
          /\ (old \in DOMAIN before /\ new \notin DOMAIN before) =>
                /\ last.res = Ok(new)
                /\ old \notin DOMAIN fs
                /\ DOMAIN fs = (DOMAIN before \ below) \cup {image(q) : q \in below}
                /\ \A q \in below : fs[image(q)] = before[q]
                /\ \A q \in DOMAIN before \ below : fs[q] = before[q]

\* a folder with a file and a folder below it was renamed, next to another
\* entry
C18_Witness ==
    /\ last.op = "rename_file" /\ last.res.ok
    /\ LET old == last.args[1]
           before == last.pre.fs
       IN /\ before[old].kind = "dir"
          /\ \E q \in DOMAIN before : Parent(q) = old /\ before[q].kind = "file"
          /\ \E q \in DOMAIN before : Parent(q) = old /\ before[q].kind = "dir"
          /\ \E q \in DOMAIN before : ~IsPrefix(old, q)
          /\ last.res.val \in DOMAIN fs

StoredFiles == IF recent_files = None THEN <<>> ELSE recent_files[1]
StoredFilesBefore == IF last.pre.recent_files = None THEN <<>> ELSE last.pre.recent_files[1]

(* C19: after any completed add_recent_file calls the stored list has at    *)
(* most 10 entries, no path twice, and the path of the last call first;     *)
(* add_recent_file(p) leaves the other paths in the order they had, cut to  *)
(* 10 with p; get_recent_files returns the stored list and leaves it as it  *)
(* was.                                                                     *)
C19_RecentFilesDiscipline ==
    /\ Len(StoredFiles) <= 10
    /\ \A i, j \in 1..Len(StoredFiles) : i # j => StoredFiles[i] # StoredFiles[j]
    /\ hist # <<>> => (StoredFiles # <<>> /\ StoredFiles[1] = hist[Len(hist)])
    /\ last.op = "add_recent_file" =>
          LET p == last.args[1]
              others == {i \in 1..Len(StoredFilesBefore) : StoredFilesBefore[i] # p}
              rank(i) == 1 + Cardinality({j \in others : j <= i})
          IN /\ last.res.ok
             /\ StoredFiles[1] = p
             /\ Len(StoredFiles) = SmallerOf(10, 1 + Cardinality(others))
             /\ \A i \in others :
                   rank(i) <= 10 => StoredFiles[rank(i)] = StoredFilesBefore[i]
    /\ last.op = "get_recent_files" =>
          /\ last.res = Ok(StoredFiles)
          /\ recent_files = last.pre.recent_files

\* the list was full, paths had been dropped from it, and a path of the list
\* that was not first was added again
C19_Witness ==
    /\ last.op = "add_recent_file"
    /\ Len(StoredFilesBefore) = 10
    /\ Used > 10
    /\ \E i \in 2..10 : StoredFilesBefore[i] = last.args[1]
    /\ Len(StoredFiles) = 10

CreateFileCalls == {i \in DOMAIN calls : calls[i].op = "create_file"}

(* C20: in every interleaving, a create_file call that returns success      *)
(* found no file at base/name when it wrote, and of two create_file calls   *)
(* with the same arguments that ran at the same time at most one returns    *)
(* success.                                                                 *)
C20_CreateNeverOverwrites ==
    /\ \A i \in CreateFileCalls :
          calls[i].pc = "done" => calls[i].found = None
    /\ \A i, j \in CreateFileCalls :
          (i # j /\ calls[i].path = calls[j].path
             /\ calls[i].pc = "done" /\ calls[j].pc = "done")
          => ~(calls[i].res.ok /\ calls[j].res.ok)

(* C21: in every listing a node has children exactly when it is a           *)
(* directory: every directory node has them, a directory that could not be  *)
(* read included, and no file node has them.                                *)
C21_ChildrenIffDirectory ==
    Listed =>
       \A n \in AllNodes(last.res.val) : (n.children # None) <=> n.is_directory

(* C22: create_file, create_folder, delete_file, rename_file and the        *)
(* reading commands leave the stored config as it was; set_workspace(p)     *)
(* stores p as current_workspace.  So once delete_file has removed the      *)
(* current workspace get_current_workspace answers none, and once           *)
(* create_folder has created a folder at that path again it answers the     *)
(* workspace, with no set_workspace call in between.                        *)
C22_OnlySetWorkspaceWritesConfig ==
    /\ last.op \notin {"none", "set_workspace"} => config_file = last.pre.config_file
    /\ last.op = "set_workspace" =>
          /\ last.res.ok
          /\ config_file # None /\ config_file[1].current_workspace = Some(last.args[1])
    /\ (last.op = "delete_file" /\ last.res.ok /\ hist # <<>>
           /\ last.args[1] = hist[Len(hist)]) =>
          get_current_workspace(config_file, fs).res = Ok(None)
    /\ (last.op = "create_folder" /\ last.res.ok /\ hist # <<>>
           /\ last.res.val = hist[Len(hist)]) =>
          LET p == hist[Len(hist)] IN
          get_current_workspace(config_file, fs).res
             = Ok(Some([path |-> p, name |-> p[Len(p)]]))
    /\ (last.op = "get_current_workspace" /\ hist # <<>>) =>
          (last.res.val = None <=> hist[Len(hist)] \notin DOMAIN fs)

\* the folder of the current workspace was not on disk, create_folder has
\* made it, and the config still names it
C22_Witness ==
    /\ last.op = "create_folder" /\ last.res.ok
    /\ hist # <<>> /\ last.res.val = hist[Len(hist)]
    /\ config_file = last.pre.config_file
    /\ config_file[1].current_workspace = Some(last.res.val)
    /\ Len(config_file[1].recent_workspaces) = 2

=============================================================================
